---------------------------- MODULE Spec2Model ----------------------------
(***************************************************************************)
(* AttendMate: the attendance calculator of the server (calculateAttendance)*)
(* computed in IEEE-754 binary64 arithmetic as JavaScript computes it, the  *)
(* SAFE/LOW indicator of the client's renderSubjects, and the client/server *)
(* protocol of the four counter buttons (click, PUT, response, re-fetch,    *)
(* re-render).                                                              *)
(***************************************************************************)
EXTENDS Integers, Sequences, FiniteSets

(***************************************************************************)
(* TLC may evaluate an operator argument or a LET definition again at every *)
(* use.  A value that is used more than once is therefore bound first, as   *)
(* the element of a singleton set: Bind(v, LAMBDA x : e) is e with x = v.   *)
(***************************************************************************)
Bind(v, F(_)) == CHOOSE r \in { F(x) : x \in {v} } : TRUE
Bind2(v, w, F(_, _)) == CHOOSE r \in { F(x, y) : x \in {v}, y \in {w} } : TRUE

(***************************************************************************)
(* Natural numbers of arbitrary size: sequences of limbs, least significant *)
(* limb first, no most significant zero limb (zero is the empty sequence).  *)
(* They carry the 53-bit significands of JavaScript's Numbers.              *)
(***************************************************************************)
LimbBits == 15
Base == 2 ^ LimbBits

One == <<1>>

RECURSIVE BigNormTo(_, _)
BigNormTo(x, len) ==
  IF len = 0 THEN <<>>
  ELSE IF x[len] = 0 THEN BigNormTo(x, len - 1)
  ELSE SubSeq(x, 1, len)

\* x without its most significant zero limbs
BigNorm(x0) == Bind(x0, LAMBDA x : BigNormTo(x, Len(x)))

RECURSIVE BigFromNat(_)
BigFromNat(n) ==
  IF n = 0 THEN <<>> ELSE <<n % Base>> \o BigFromNat(n \div Base)

RECURSIVE BigToNatFrom(_, _)
BigToNatFrom(x, i) ==
  IF i > Len(x) THEN 0 ELSE x[i] + Base * BigToNatFrom(x, i + 1)

BigToNat(x0) == Bind(x0, LAMBDA x : BigToNatFrom(x, 1))

\* -1, 0 or 1 as x < y, x = y or x > y, comparing from limb i downwards
RECURSIVE BigCmpFrom(_, _, _)
BigCmpFrom(x, y, i) ==
  IF i = 0 THEN 0
  ELSE IF x[i] < y[i] THEN -1
  ELSE IF x[i] > y[i] THEN 1
  ELSE BigCmpFrom(x, y, i - 1)

BigCmp(x0, y0) ==
  Bind2(x0, y0, LAMBDA x, y :
    IF Len(x) < Len(y) THEN -1
    ELSE IF Len(x) > Len(y) THEN 1
    ELSE BigCmpFrom(x, y, Len(x)))

Limb(x, i) == IF i > Len(x) THEN 0 ELSE x[i]

\* the limbs from i upwards of x + y + c
RECURSIVE BigAddFrom(_, _, _, _)
BigAddFrom(x, y, i, c) ==
  IF i > Len(x) /\ i > Len(y) THEN (IF c = 0 THEN <<>> ELSE <<c>>)
  ELSE LET t == Limb(x, i) + Limb(y, i) + c
       IN  <<t % Base>> \o BigAddFrom(x, y, i + 1, t \div Base)

BigAdd(x0, y0) == Bind2(x0, y0, LAMBDA x, y : BigAddFrom(x, y, 1, 0))

BigInc(x0) == Bind(x0, LAMBDA x : BigAddFrom(x, <<>>, 1, 1))

\* the limbs from i upwards of x - y - b, for x >= y
RECURSIVE BigSubFrom(_, _, _, _)
BigSubFrom(x, y, i, b) ==
  IF i > Len(x) THEN <<>>
  ELSE LET t == x[i] - Limb(y, i) - b
       IN  IF t < 0 THEN <<t + Base>> \o BigSubFrom(x, y, i + 1, 1)
           ELSE <<t>> \o BigSubFrom(x, y, i + 1, 0)

BigSub(x0, y0) == Bind2(x0, y0, LAMBDA x, y : BigNorm(BigSubFrom(x, y, 1, 0)))

\* the limbs from i upwards of x * k + c, for 0 < k < Base
RECURSIVE BigMulSmallFrom(_, _, _, _)
BigMulSmallFrom(x, k, i, c) ==
  IF i > Len(x) THEN (IF c = 0 THEN <<>> ELSE <<c>>)
  ELSE LET t == x[i] * k + c
       IN  <<t % Base>> \o BigMulSmallFrom(x, k, i + 1, t \div Base)

BigMulSmall(x0, k0) ==
  Bind2(x0, k0, LAMBDA x, k :
    IF k = 0 THEN <<>> ELSE BigMulSmallFrom(x, k, 1, 0))

\* x * (the limbs of y from i upwards)
RECURSIVE BigMulFrom(_, _, _)
BigMulFrom(x, y, i) ==
  IF i > Len(y) THEN <<>>
  ELSE Bind(BigMulFrom(x, y, i + 1), LAMBDA rest :
         BigAdd(BigMulSmall(x, y[i]),
                IF rest = <<>> THEN <<>> ELSE <<0>> \o rest))

BigMul(x0, y0) ==
  Bind2(x0, y0, LAMBDA x, y : IF x = <<>> THEN <<>> ELSE BigMulFrom(x, y, 1))

RECURSIVE SmallBitLen(_)
SmallBitLen(n) == IF n = 0 THEN 0 ELSE 1 + SmallBitLen(n \div 2)

BigBitLen(x0) ==
  Bind(x0, LAMBDA x :
    IF x = <<>> THEN 0
    ELSE (Len(x) - 1) * LimbBits + SmallBitLen(x[Len(x)]))

BigIsOdd(x0) == Bind(x0, LAMBDA x : x # <<>> /\ x[1] % 2 = 1)

\* x * 2^n
BigShl(x0, n0) ==
  Bind2(x0, n0, LAMBDA x, n :
    IF x = <<>> THEN <<>>
    ELSE [i \in 1..(n \div LimbBits) |-> 0]
           \o BigMulSmall(x, 2 ^ (n % LimbBits)))

\* the limbs 1..i of floor((r * Base^i + x[1..i]) / k), for 0 < k < Base
RECURSIVE BigDivSmallFrom(_, _, _, _)
BigDivSmallFrom(x, k, i, r) ==
  IF i = 0 THEN <<>>
  ELSE LET t == r * Base + x[i]
       IN  BigDivSmallFrom(x, k, i - 1, t % k) \o <<t \div k>>

\* floor(x / 2^n)
BigShr(x0, n0) ==
  Bind2(x0, n0, LAMBDA x, n :
    IF n \div LimbBits >= Len(x) THEN <<>>
    ELSE Bind(SubSeq(x, (n \div LimbBits) + 1, Len(x)), LAMBDA y :
           BigNorm(BigDivSmallFrom(y, 2 ^ (n % LimbBits), Len(y), 0))))

\* The largest digit q with q * d <= r, for r < Base * d, counting down from
\* an estimate q that is at least that digit
RECURSIVE QuotientDigitFrom(_, _, _)
QuotientDigitFrom(r, d, q) ==
  IF BigCmp(BigMulSmall(d, q), r) <= 0 THEN q
  ELSE QuotientDigitFrom(r, d, q - 1)

\* The estimate: the two limbs of r at and above d's most significant limb,
\* divided by that limb (it is within 2 of the digit when that limb is at
\* least Base / 2)
QuotientDigit(r, d) ==
  IF BigCmp(r, d) < 0 THEN 0
  ELSE Bind((Limb(r, Len(d) + 1) * Base + r[Len(d)]) \div d[Len(d)], LAMBDA est :
         QuotientDigitFrom(r, d, IF est >= Base THEN Base - 1 ELSE est))

\* <<quotient, remainder>> of (the limbs of n from i upwards) by d, d # 0:
\* long division, one limb of n at a time from the most significant
RECURSIVE BigDivModFrom(_, _, _)
BigDivModFrom(n, d, i) ==
  IF i > Len(n) THEN <<(<<>>), (<<>>)>>
  ELSE Bind(BigDivModFrom(n, d, i + 1), LAMBDA hi :
         Bind(BigNorm(<<n[i]>> \o hi[2]), LAMBDA r :
           Bind(QuotientDigit(r, d), LAMBDA q :
             <<BigNorm(<<q>> \o hi[1]), BigSub(r, BigMulSmall(d, q))>>)))

BigDivMod(n0, d0) == Bind2(n0, d0, LAMBDA n, d : BigDivModFrom(n, d, 1))

(***************************************************************************)
(* JavaScript Numbers: IEEE-754 binary64, round to nearest, ties to even.   *)
(* A Number is [k, s, m, e]: k is "fin", "inf" or "nan", s the sign bit, and *)
(* a finite Number is (-1)^s * m * 2^e with m = 0 (then e = 0) or           *)
(* 2^52 <= m < 2^53.  The exponent is unbounded: the calculator's values    *)
(* stay far from the overflow and subnormal ranges of binary64.             *)
(***************************************************************************)
Precision == 53

NumZero(s) == [k |-> "fin", s |-> s, m |-> <<>>, e |-> 0]
NumInf(s) == [k |-> "inf", s |-> s, m |-> <<>>, e |-> 0]
NumNaN == [k |-> "nan", s |-> 0, m |-> <<>>, e |-> 0]
NumFin(s, m, e) == [k |-> "fin", s |-> s, m |-> m, e |-> e]

IsZero(x) == x.k = "fin" /\ x.m = <<>>
Xor(a, b) == IF a = b THEN 0 ELSE 1

\* RoundInt below, for n of more than Precision bits: sh bits are dropped
RoundIntLong(s, n, e, sh) ==
  Bind(BigShr(n, sh), LAMBDA q :
    Bind(BigCmp(BigMulSmall(BigSub(n, BigShl(q, sh)), 2), BigShl(One, sh)),
         LAMBDA half :
      Bind(IF half > 0 \/ (half = 0 /\ BigIsOdd(q)) THEN BigInc(q) ELSE q,
           LAMBDA m :
        IF BigBitLen(m) > Precision THEN NumFin(s, BigShr(m, 1), e + sh + 1)
        ELSE NumFin(s, m, e + sh))))

\* The Number nearest to (-1)^s * n * 2^e for a natural n, ties to the even
\* significand
RoundInt(s, n0, e0) ==
  Bind2(n0, e0, LAMBDA n, e :
    Bind(BigBitLen(n), LAMBDA len :
      IF n = <<>> THEN NumZero(s)
      ELSE IF len <= Precision
        THEN NumFin(s, BigShl(n, Precision - len), e - (Precision - len))
      ELSE RoundIntLong(s, n, e, len - Precision)))

\* RoundRat below, for d with its most significant limb >= Base / 2 and n
\* shifted left by k bits
RoundQuotient(s, n, d, e, k) ==
  Bind(BigDivMod(BigShl(n, k), d), LAMBDA qr :
    RoundInt(s, IF qr[2] = <<>> THEN BigMulSmall(qr[1], 2)
                ELSE BigInc(BigMulSmall(qr[1], 2)),
             e - k - 1))

\* The Number nearest to (-1)^s * (n / d) * 2^e, for naturals n and d # 0:
\* the quotient to at least Precision + 2 bits, with a last bit that says
\* whether the division left a remainder, rounded as above
RoundRat(s, n0, d0, e0) ==
  Bind2(n0, d0, LAMBDA n, d :
    IF n = <<>> THEN NumZero(s)
    ELSE Bind2(LimbBits - SmallBitLen(d[Len(d)]), e0, LAMBDA sh, e :
           Bind(Precision + 2 - (BigBitLen(n) - (Len(d) * LimbBits)), LAMBDA k :
             RoundQuotient(s, n, BigShl(d, sh), e + sh, IF k > 0 THEN k ELSE 0))))

\* Number(n) of an integer n
NumFromInt(n) ==
  IF n < 0 THEN RoundInt(1, BigFromNat(0 - n), 0)
  ELSE RoundInt(0, BigFromNat(n), 0)

NumNeg(x0) ==
  Bind(x0, LAMBDA x : IF x.k = "nan" THEN x ELSE [x EXCEPT !.s = 1 - x.s])

\* x / y
NumDiv(x0, y0) ==
  Bind2(x0, y0, LAMBDA x, y :
    IF x.k = "nan" \/ y.k = "nan" THEN NumNaN
    ELSE IF x.k = "inf"
      THEN (IF y.k = "inf" THEN NumNaN ELSE NumInf(Xor(x.s, y.s)))
    ELSE IF y.k = "inf" THEN NumZero(Xor(x.s, y.s))
    ELSE IF IsZero(y)
      THEN (IF IsZero(x) THEN NumNaN ELSE NumInf(Xor(x.s, y.s)))
    ELSE RoundRat(Xor(x.s, y.s), x.m, y.m, x.e - y.e))

\* x * y
NumMul(x0, y0) ==
  Bind2(x0, y0, LAMBDA x, y :
    IF x.k = "nan" \/ y.k = "nan" THEN NumNaN
    ELSE IF x.k = "inf" \/ y.k = "inf"
      THEN (IF IsZero(x) \/ IsZero(y) THEN NumNaN ELSE NumInf(Xor(x.s, y.s)))
    ELSE RoundInt(Xor(x.s, y.s), BigMul(x.m, y.m), x.e + y.e))

\* x + y for finite nonzero x and y: xm * 2^e and ym * 2^e are |x| and |y|
AddAligned(x, y, xm, ym, e) ==
  Bind(BigCmp(xm, ym), LAMBDA c :
    IF x.s = y.s THEN RoundInt(x.s, BigAdd(xm, ym), e)
    ELSE IF c = 0 THEN NumZero(0)
    ELSE IF c > 0 THEN RoundInt(x.s, BigSub(xm, ym), e)
    ELSE RoundInt(y.s, BigSub(ym, xm), e))

\* x + y
NumAdd(x0, y0) ==
  Bind2(x0, y0, LAMBDA x, y :
    IF x.k = "nan" \/ y.k = "nan" THEN NumNaN
    ELSE IF x.k = "inf"
      THEN (IF y.k = "inf" /\ y.s # x.s THEN NumNaN ELSE x)
    ELSE IF y.k = "inf" THEN y
    ELSE IF IsZero(x) /\ IsZero(y)
      THEN NumZero(IF x.s = 1 /\ y.s = 1 THEN 1 ELSE 0)
    ELSE IF IsZero(x) THEN y
    ELSE IF IsZero(y) THEN x
    ELSE Bind(IF x.e < y.e THEN x.e ELSE y.e, LAMBDA e :
           Bind2(BigShl(x.m, x.e - e), BigShl(y.m, y.e - e), LAMBDA xm, ym :
             AddAligned(x, y, xm, ym, e))))

\* x - y
NumSub(x, y) == NumAdd(x, NumNeg(y))

\* -1, 0 or 1: the sign of x, which is not NaN
Sign(x) == IF IsZero(x) THEN 0 ELSE IF x.s = 1 THEN -1 ELSE 1

\* -1, 0, 1 as |x| < |y|, |x| = |y|, |x| > |y|, for nonzero x and y
MagnitudeCmp(x, y) ==
  IF x.k = "inf" THEN (IF y.k = "inf" THEN 0 ELSE 1)
  ELSE IF y.k = "inf" THEN -1
  ELSE Bind(IF x.e < y.e THEN x.e ELSE y.e, LAMBDA e :
         BigCmp(BigShl(x.m, x.e - e), BigShl(y.m, y.e - e)))

\* -1, 0, 1 as x < y, x = y, x > y; neither is NaN
NumCmp(x0, y0) ==
  Bind2(x0, y0, LAMBDA x, y :
    IF Sign(x) # Sign(y) THEN (IF Sign(x) < Sign(y) THEN -1 ELSE 1)
    ELSE IF Sign(x) = 0 THEN 0
    ELSE IF Sign(x) > 0 THEN MagnitudeCmp(x, y) ELSE 0 - MagnitudeCmp(x, y))

\* x >= y and x > y: false when either is NaN
NumGe(x0, y0) ==
  Bind2(x0, y0, LAMBDA x, y :
    x.k # "nan" /\ y.k # "nan" /\ NumCmp(x, y) >= 0)
NumGt(x0, y0) ==
  Bind2(x0, y0, LAMBDA x, y :
    x.k # "nan" /\ y.k # "nan" /\ NumCmp(x, y) > 0)

\* Math.floor(x) when up = FALSE, Math.ceil(x) when up = TRUE
NumRoundInt(x0, up) ==
  Bind(x0, LAMBDA x :
    IF x.k # "fin" \/ IsZero(x) \/ x.e >= 0 THEN x
    ELSE Bind(BigShr(x.m, 0 - x.e), LAMBDA q :
           IF BigShl(q, 0 - x.e) # x.m /\ (up <=> x.s = 0)
             THEN RoundInt(x.s, BigInc(q), 0)
             ELSE RoundInt(x.s, q, 0)))

NumFloor(x) == NumRoundInt(x, FALSE)
NumCeil(x) == NumRoundInt(x, TRUE)

\* x.toFixed(2) of a finite x: the sign, and the digits as the integer (the
\* hundredths) nearest to |x| * 100, the larger of two equally near
ToFixed2(x0) ==
  Bind(x0, LAMBDA x :
    [s |-> x.s,
     hundredths |->
       IF x.e >= 0 THEN BigShl(BigMulSmall(x.m, 100), x.e)
       ELSE BigShr(BigAdd(BigMulSmall(x.m, 200), BigShl(One, 0 - x.e)),
                   1 - x.e)])

\* Number(str) of such a decimal string
NumFromFixed2(str0) ==
  Bind(str0, LAMBDA str : RoundRat(str.s, str.hundredths, BigFromNat(100), 0))

\* What a Number with an integer value prints as: the integer, or Infinity
\* (NaN never reaches a result field: the clamps below replace it by 0)
Shown(x0) ==
  Bind(x0, LAMBDA x :
    IF x.k = "fin"
      THEN [fin |-> TRUE,
            n |-> (IF x.s = 1 THEN -1 ELSE 1)
                  * BigToNat(IF x.e >= 0 THEN BigShl(x.m, x.e)
                             ELSE BigShr(x.m, 0 - x.e))]
      ELSE [fin |-> FALSE, n |-> 0])

(***************************************************************************)
(* The server's calculateAttendance(attended, total, requiredPercent), on   *)
(* integer arguments.  `divisions` counts the divisions it evaluates.       *)
(***************************************************************************)
Hundred == NumFromInt(100)

\* the message templates; N and P stand for the interpolated values, which
\* the message record carries as count and percent
NoClassesMessage == "No classes conducted yet."
SafeMessage == "You are safe. You can bunk around N classes."
NeedMessage == "You need to attend around N more classes to reach P%."

\* the guard with total < 0 in place of total <= 0
NoClassesStrict(total) == NumGt(NumZero(0), total)

\* total <= 0: the early return
NoClasses(total) == NumGe(NumZero(0), total)

\* const r = requiredPercent / 100
Ratio(requiredPercent) == NumDiv(requiredPercent, Hundred)

\* const currentPercent = (attended / total) * 100
CurrentPercent(attended, total) == NumMul(NumDiv(attended, total), Hundred)

\* currentPercent >= requiredPercent
IsSafeBranch(currentPercent, requiredPercent) ==
  NumGe(currentPercent, requiredPercent)

\* the safe branch's quotient with attended + r * total as its numerator
NMaxPlus(attended, total, r) ==
  NumFloor(NumDiv(NumAdd(attended, NumMul(r, total)), r))

\* const nMax = Math.floor((attended - r * total) / r)
NMax(attended, total, r) ==
  NumFloor(NumDiv(NumSub(attended, NumMul(r, total)), r))

\* the unsafe branch's quotient with r * total + attended as its numerator
XMinPlus(attended, total, r) ==
  NumCeil(NumDiv(NumAdd(NumMul(r, total), attended),
                 NumSub(NumFromInt(1), r)))

\* const xMin = Math.ceil((r * total - attended) / (1 - r))
XMin(attended, total, r) ==
  NumCeil(NumDiv(NumSub(NumMul(r, total), attended), NumSub(NumFromInt(1), r)))

\* v > 0 ? v : 0
ClampPositive(v0) ==
  Bind(v0, LAMBDA v : IF NumGt(v, NumZero(0)) THEN v ELSE NumZero(0))

\* Number(currentPercent.toFixed(2)); toFixed prints NaN and Infinity by name
RoundedPercent(currentPercent0) ==
  Bind(currentPercent0, LAMBDA currentPercent :
    IF currentPercent.k = "fin" THEN NumFromFixed2(ToFixed2(currentPercent))
    ELSE currentPercent)

NoClassesStats ==
  [currentPercent |-> NumZero(0),
   canBunk |-> [fin |-> TRUE, n |-> 0],
   needToAttend |-> [fin |-> TRUE, n |-> 0],
   message |-> [kind |-> NoClassesMessage,
                count |-> [fin |-> TRUE, n |-> 0], percent |-> 0],
   divisions |-> 0]

\* the return statement of the main path
Result(currentPercent, requiredPercent, requiredPercentArg, canBunk, needToAttend) ==
  [currentPercent |-> RoundedPercent(currentPercent),
   canBunk |-> canBunk,
   needToAttend |-> needToAttend,
   message |->
     IF IsSafeBranch(currentPercent, requiredPercent)
       THEN [kind |-> SafeMessage,
             count |-> canBunk, percent |-> 0]
       ELSE [kind |-> NeedMessage,
             count |-> needToAttend, percent |-> requiredPercentArg],
   divisions |-> 3]

\* the main path: total > 0
Calculate(attended, total, requiredPercent, requiredPercentArg) ==
  Bind2(Ratio(requiredPercent), CurrentPercent(attended, total),
        LAMBDA r, currentPercent :
    IF IsSafeBranch(currentPercent, requiredPercent)
      THEN Result(currentPercent, requiredPercent, requiredPercentArg,
                  Shown(ClampPositive(NMax(attended, total, r))),
                  Shown(NumZero(0)))
      ELSE Result(currentPercent, requiredPercent, requiredPercentArg,
                  Shown(NumZero(0)),
                  Shown(ClampPositive(XMin(attended, total, r)))))

calculateAttendance(attendedArg, totalArg, requiredPercentArg) ==
  Bind2(NumFromInt(attendedArg), NumFromInt(totalArg), LAMBDA attended, total :
    IF NoClasses(total) THEN NoClassesStats
    ELSE Bind(NumFromInt(requiredPercentArg), LAMBDA requiredPercent :
           Calculate(attended, total, requiredPercent, requiredPercentArg)))

(***************************************************************************)
(* One subject through the server and the page: the stored document, the    *)
(* stats GET /api/subjects and PUT /api/subjects/:id attach to it with      *)
(* calculateAttendance, and the card renderSubjects draws from them.        *)
(***************************************************************************)
VARIABLES
  subject,   \* the stored document: [attended, total, requiredPercent]
  stats,     \* the stats of the last response for it, NoStats before any
  card,      \* the card on the page, NoCard before any
  pc         \* "stored", "fetched" (stats computed) or "rendered"

calcVars == <<subject, stats, card, pc>>

(***************************************************************************)
(* The page and the server for one stored subject: the four counter         *)
(* buttons of its card, handleSubjectUpdate, updateSubject's PUT, the       *)
(* server's PUT and GET handlers, fetchSubjects and renderSubjects.  The    *)
(* handlers read and write only total and attended (subjectName and         *)
(* requiredPercent are sent back as they were), and the stats of a response *)
(* are the function StatsOf of its document, so both are left out here.     *)
(***************************************************************************)
VARIABLES
  doc,        \* the stored document: [total, attended]
  page,       \* the object s behind the card on the page, NoPage without a card
  calls,      \* the asynchronous calls of the page, by number: 0 is the
              \* initial fetchSubjects(), i > 0 the handler of the i-th click
  clicks,     \* the number of clicks so far
  history     \* what happened so far (not read by any handler)

clientVars == <<doc, page, calls, clicks, history>>

MaxTotal == 4     \* largest total of the enumerated documents
MaxInvalid == 1   \* how far outside 0 <= attended <= total, 1 <= percent <= 100

Totals == (0 - MaxInvalid)..MaxTotal
Attendeds(total) ==
  (0 - MaxInvalid)..(IF total > 0 THEN total + MaxInvalid ELSE MaxTotal)
RequiredPercents == (1 - MaxInvalid)..(100 + MaxInvalid)

\* documents beyond the enumerated range: the calculator's worked examples,
\* and two whose percentage is within rounding of the target
Samples ==
  { [attended |-> 75, total |-> 100, requiredPercent |-> 75],
    [attended |-> 80, total |-> 100, requiredPercent |-> 75],
    [attended |-> 50, total |-> 100, requiredPercent |-> 75],
    [attended |-> 29, total |-> 50, requiredPercent |-> 58],
    [attended |-> 136, total |-> 203, requiredPercent |-> 67] }

Subjects ==
  { [attended |-> a, total |-> t, requiredPercent |-> p] :
      <<a, t, p>> \in { x \in (Attendeds(MaxTotal) \X Totals \X RequiredPercents) :
                          x[1] \in Attendeds(x[2]) } }
    \cup Samples

NoStats == [currentPercent |-> NumZero(0),
            canBunk |-> [fin |-> TRUE, n |-> 0],
            needToAttend |-> [fin |-> TRUE, n |-> 0],
            message |-> [kind |-> "", count |-> [fin |-> TRUE, n |-> 0],
                         percent |-> 0],
            divisions |-> 0]
NoCard == [pill |-> "", hint |-> NoStats.message]

StatsOf(s) == calculateAttendance(s.attended, s.total, s.requiredPercent)

\* const isSafe = s.stats.currentPercent >= s.requiredPercent
IsSafe(s, st) == NumGe(st.currentPercent, NumFromInt(s.requiredPercent))

\* the status pill and the hint line of the card of subject s with stats st
RenderCard(s, st) ==
  [pill |-> IF IsSafe(s, st) THEN "SAFE" ELSE "LOW", hint |-> st.message]

InitCalc ==
  /\ subject \in Subjects
  /\ stats = NoStats
  /\ card = NoCard
  /\ pc = "stored"
  \* the page's variables are not used
  /\ doc = [total |-> 0, attended |-> 0]
  /\ page = [shown |-> FALSE, total |-> 0, attended |-> 0]
  /\ calls = <<>>
  /\ clicks = 0
  /\ history = <<>>

\* GET /api/subjects: the stats of the stored document
GetSubjects ==
  /\ pc = "stored"
  /\ stats' = StatsOf(subject)
  /\ pc' = "fetched"
  /\ UNCHANGED <<subject, card, clientVars>>

\* renderSubjects(data) on the response
RenderSubjects ==
  /\ pc = "fetched"
  /\ card' = RenderCard(subject, stats)
  /\ pc' = "rendered"
  /\ UNCHANGED <<subject, stats, clientVars>>

\* PUT /api/subjects/:id with more classes attended, the rest as stored:
\* the document is replaced and the response carries its new stats
PutAttended ==
  /\ pc = "rendered"
  /\ subject.total <= MaxTotal
  /\ \E a \in (subject.attended + 1)..subject.total :
       LET updated == [subject EXCEPT !.attended = a]
       IN  /\ subject' = updated
           /\ stats' = StatsOf(updated)
  /\ pc' = "fetched"
  /\ UNCHANGED <<card, clientVars>>

NextCalc == GetSubjects \/ RenderSubjects \/ PutAttended

(***************************************************************************)
(* The page and the server.                                                 *)
(***************************************************************************)
MaxStored == 2   \* largest total of the document stored at the start
MaxClicks == 2   \* clicks on the counter buttons

CallIds == 0..MaxClicks
Buttons == {"incTotal", "decTotal", "incAttended", "decAttended"}

NoPage == [shown |-> FALSE, total |-> 0, attended |-> 0]
\* a call that has not started, or has ended
NoCall == [stage |-> "none", total |-> 0, attended |-> 0,
           onPage |-> FALSE, button |-> ""]

Min(a, b) == IF a < b THEN a ELSE b
Max(a, b) == IF a > b THEN a ELSE b

\* + Total without the increment
IncTotalStale(s) == [total |-> s.total, attended |-> s.attended]

\* + Total: newTotal = s.total + 1, newAttended = s.attended
IncTotal(s) == [total |-> s.total + 1, attended |-> s.attended]

\* - Total without lowering attended to the new total
DecTotalUnclamped(s) ==
  [total |-> Max(0, s.total - 1), attended |-> s.attended]

\* - Total: newTotal = Math.max(0, s.total - 1), and attended is lowered to it
DecTotal(s) ==
  LET newTotal == Max(0, s.total - 1)
  IN  [total |-> newTotal,
       attended |-> IF s.attended > newTotal THEN newTotal ELSE s.attended]

\* + Attended: newAttended = Math.min(s.total, s.attended + 1)
IncAttended(s) == [total |-> s.total, attended |-> Min(s.total, s.attended + 1)]

\* - Attended: newAttended = Math.max(0, s.attended - 1)
DecAttended(s) == [total |-> s.total, attended |-> Max(0, s.attended - 1)]

\* the total and attended of the PUT payload of a click on button b of card s
Payload(b, s) ==
  CASE b = "incTotal" -> IncTotal(s)
    [] b = "decTotal" -> DecTotal(s)
    [] b = "incAttended" -> IncAttended(s)
    [] b = "decAttended" -> DecAttended(s)

Pending(c) == c.stage # "none"

InitClient ==
  /\ doc \in { [total |-> t, attended |-> a] :
                t \in 0..MaxStored, a \in 0..MaxStored }
  /\ doc.attended <= doc.total
  /\ page = NoPage
  /\ calls = [i \in CallIds |->
               IF i = 0 THEN [NoCall EXCEPT !.stage = "get"] ELSE NoCall]
  /\ clicks = 0
  /\ history = [initial |-> doc, incTotalStored |-> 0,
                otherClicked |-> FALSE, overlapped |-> FALSE]
  \* the calculator's variables are not used
  /\ subject = [attended |-> 0, total |-> 0, requiredPercent |-> 75]
  /\ stats = NoStats
  /\ card = NoCard
  /\ pc = "off"

\* A click on button b of the card: the listener computes the new counters
\* from s, and handleSubjectUpdate sends them with updateSubject's PUT.
Click(b) ==
  /\ page.shown
  /\ clicks < MaxClicks
  /\ clicks' = clicks + 1
  /\ calls' = [calls EXCEPT ![clicks + 1] =
                 [stage |-> "put",
                  total |-> Payload(b, page).total,
                  attended |-> Payload(b, page).attended,
                  onPage |-> TRUE, button |-> b]]
  /\ history' = [history EXCEPT
                   !.otherClicked = @ \/ b # "incTotal",
                   !.overlapped = @ \/ \E i \in CallIds : Pending(calls[i])]
  /\ UNCHANGED <<doc, page, calcVars>>

\* PUT /api/subjects/:id: findByIdAndUpdate stores the payload and the
\* response carries the updated document.
ServerPut(i) ==
  /\ calls[i].stage = "put"
  /\ doc' = [total |-> calls[i].total, attended |-> calls[i].attended]
  /\ calls' = [calls EXCEPT ![i].stage = "updated", ![i].button = ""]
  /\ history' = [history EXCEPT !.incTotalStored =
                   IF calls[i].button = "incTotal" THEN @ + 1 ELSE @]
  /\ UNCHANGED <<page, clicks, calcVars>>

\* The PUT fails (the catch of the server's handler answers 500, or the
\* request does not arrive): nothing is stored.
ServerPutFails(i) ==
  /\ calls[i].stage = "put"
  /\ calls' = [calls EXCEPT ![i] = [NoCall EXCEPT !.stage = "putFailed"]]
  /\ UNCHANGED <<doc, page, clicks, history, calcVars>>

\* handleSubjectUpdate after await updateSubject: the local copy is updated
\* and fetchSubjects sends its GET.
PutResponse(i) ==
  /\ calls[i].stage = "updated"
  /\ page' = IF calls[i].onPage
               THEN [page EXCEPT !.total = calls[i].total,
                                 !.attended = calls[i].attended]
               ELSE page
  /\ calls' = [calls EXCEPT ![i] = [NoCall EXCEPT !.stage = "get"]]
  /\ UNCHANGED <<doc, clicks, history, calcVars>>

\* handleSubjectUpdate's catch: alert("Failed to update subject.")
PutError(i) ==
  /\ calls[i].stage = "putFailed"
  /\ calls' = [calls EXCEPT ![i] = NoCall]
  /\ UNCHANGED <<doc, page, clicks, history, calcVars>>

\* GET /api/subjects: the response carries the stored document
ServerGet(i) ==
  /\ calls[i].stage = "get"
  /\ calls' = [calls EXCEPT ![i].stage = "data",
                             ![i].total = doc.total,
                             ![i].attended = doc.attended]
  /\ UNCHANGED <<doc, page, clicks, history, calcVars>>

\* The GET fails
ServerGetFails(i) ==
  /\ calls[i].stage = "get"
  /\ calls' = [calls EXCEPT ![i].stage = "getFailed"]
  /\ UNCHANGED <<doc, page, clicks, history, calcVars>>

\* fetchSubjects after await: renderSubjects(data) replaces the card by a
\* new one on a new object s; the calls that are still running keep the old
\* object as their subject.
Render(i) ==
  /\ calls[i].stage = "data"
  /\ page' = [shown |-> TRUE, total |-> calls[i].total,
              attended |-> calls[i].attended]
  /\ calls' = [j \in CallIds |->
                IF j = i THEN NoCall ELSE [calls[j] EXCEPT !.onPage = FALSE]]
  /\ UNCHANGED <<doc, clicks, history, calcVars>>

\* fetchSubjects' catch: the list shows the error text and no card
GetError(i) ==
  /\ calls[i].stage = "getFailed"
  /\ page' = NoPage
  /\ calls' = [j \in CallIds |->
                IF j = i THEN NoCall ELSE [calls[j] EXCEPT !.onPage = FALSE]]
  /\ UNCHANGED <<doc, clicks, history, calcVars>>

NextClient ==
  \/ \E b \in Buttons : Click(b)
  \/ \E i \in CallIds :
       \/ ServerPut(i) \/ ServerPutFails(i) \/ PutResponse(i) \/ PutError(i)
       \/ ServerGet(i) \/ ServerGetFails(i) \/ Render(i) \/ GetError(i)

vars == <<calcVars, clientVars>>

\* the calculator and the card
Spec == InitCalc /\ [][NextCalc]_vars

\* the page and the server
SpecClient == InitClient /\ [][NextClient]_vars

(***************************************************************************)
(* Properties of the calculator and of the card.                            *)
(***************************************************************************)
\* stats is the result of calculateAttendance for the stored document
Computed == pc \in {"fetched", "rendered"}

Zero == [fin |-> TRUE, n |-> 0]
Positive(v) == ~v.fin \/ v.n > 0
NonNegativeInteger(v) == v.fin /\ v.n >= 0


\* total > 0, 0 <= attended <= total, 0 < requiredPercent < 100
WellFormed(s) ==
  /\ s.total > 0
  /\ 0 <= s.attended /\ s.attended <= s.total
  /\ 0 < s.requiredPercent /\ s.requiredPercent < 100

\* attendance is at or above the target after skipping n more classes
StillSafeAfterSkipping(s, n) ==
  100 * s.attended >= s.requiredPercent * (s.total + n)

\* attendance is at or above the target after attending x more classes
SafeAfterAttending(s, x) ==
  100 * (s.attended + x) >= s.requiredPercent * (s.total + x)

AtThreshold(s) == 100 * s.attended = s.requiredPercent * s.total

\* C1: with total <= 0, for every attended and requiredPercent, the result is
\* currentPercent 0, canBunk 0, needToAttend 0 and the message "No classes
\* conducted yet.", and no division is performed.
C1_NoClassesResult ==
  (Computed /\ subject.total <= 0) =>
    /\ stats.currentPercent = NumZero(0)
    /\ stats.canBunk = Zero
    /\ stats.needToAttend = Zero
    /\ stats.message.kind = NoClassesMessage
    /\ stats.divisions = 0

C1_Witness ==
  /\ pc = "fetched"
  /\ subject.total = 0 /\ subject.attended = 3 /\ subject.requiredPercent = 75
  /\ stats.message.kind = NoClassesMessage

\* C2: in the safe branch of a well-formed document, canBunk is the largest
\* n >= 0 such that skipping n more classes keeps attendance at or above the
\* target.
C2_CanBunkIsLargest ==
  (Computed /\ WellFormed(subject) /\ StillSafeAfterSkipping(subject, 0)) =>
    /\ NonNegativeInteger(stats.canBunk)
    /\ StillSafeAfterSkipping(subject, stats.canBunk.n)
    /\ ~StillSafeAfterSkipping(subject, stats.canBunk.n + 1)

\* C3: in the unsafe branch of a well-formed document, needToAttend is the
\* smallest x >= 0 such that attending x more classes reaches the target.
C3_NeedToAttendIsSmallest ==
  (Computed /\ WellFormed(subject) /\ ~StillSafeAfterSkipping(subject, 0)) =>
    /\ NonNegativeInteger(stats.needToAttend)
    /\ SafeAfterAttending(subject, stats.needToAttend.n)
    /\ stats.needToAttend.n > 0 =>
         ~SafeAfterAttending(subject, stats.needToAttend.n - 1)

\* C4 as claimed: for total > 0, exactly one of canBunk > 0 and
\* needToAttend > 0 holds, unless the document is exactly at the threshold,
\* and then both are 0.
C4_ExactlyOneUnlessAtThreshold ==
  (Computed /\ subject.total > 0) =>
    IF AtThreshold(subject)
      THEN stats.canBunk = Zero /\ stats.needToAttend = Zero
      ELSE Positive(stats.canBunk) # Positive(stats.needToAttend)

\* C4 as amended: for total > 0, canBunk > 0 and needToAttend > 0 never hold
\* together, and a document with 0 <= attended <= total exactly at the
\* threshold has both 0 (off the threshold both can be 0 as well).
C4_AtMostOneAndNoneAtThreshold ==
  (Computed /\ subject.total > 0) =>
    /\ ~(Positive(stats.canBunk) /\ Positive(stats.needToAttend))
    /\ (0 <= subject.attended /\ subject.attended <= subject.total
        /\ AtThreshold(subject))
         => (stats.canBunk = Zero /\ stats.needToAttend = Zero)

C4_Witness ==
  /\ Computed
  /\ subject.total = 4 /\ subject.attended = 3 /\ subject.requiredPercent = 75
  /\ stats.canBunk = Zero /\ stats.needToAttend = Zero
  /\ stats.message.kind = SafeMessage

\* C5: for every input, canBunk and needToAttend are non-negative integers
\* and at most one of them is nonzero.
C5_NonNegativeIntegers ==
  Computed =>
    /\ NonNegativeInteger(stats.canBunk)
    /\ NonNegativeInteger(stats.needToAttend)
    /\ stats.canBunk = Zero \/ stats.needToAttend = Zero

\* C6: with total and requiredPercent fixed in a well-formed document, a
\* larger attended gives a canBunk that is no smaller and a needToAttend that
\* is no larger.
C6_Monotone ==
  [][ ( /\ Computed /\ Computed'
        /\ WellFormed(subject) /\ WellFormed(subject')
        /\ subject'.total = subject.total
        /\ subject'.requiredPercent = subject.requiredPercent
        /\ subject.attended <= subject'.attended )
      => ( /\ stats.canBunk.fin /\ stats'.canBunk.fin
           /\ stats.needToAttend.fin /\ stats'.needToAttend.fin
           /\ stats.canBunk.n <= stats'.canBunk.n
           /\ stats.needToAttend.n >= stats'.needToAttend.n ) ]_vars

C6_Witness ==
  /\ pc = "fetched" /\ card # NoCard
  /\ subject.total = 4 /\ subject.attended = 4 /\ subject.requiredPercent = 75
  /\ card.hint.kind = NeedMessage
  /\ stats.canBunk.n = 1 /\ stats.needToAttend.n = 0

\* C7: with requiredPercent = 100 and 0 <= attended < total, the result holds
\* no NaN or Infinity: needToAttend is a finite number.
C7_FiniteAtHundredPercent ==
  ( /\ Computed
    /\ subject.requiredPercent = 100
    /\ 0 <= subject.attended /\ subject.attended < subject.total )
  => (stats.needToAttend.fin /\ stats.canBunk.fin)

\* C9: for total > 0 the card shows SAFE exactly when its hint is the safe
\* branch's message (and needToAttend is 0), and LOW exactly when its hint is
\* the need-to-attend message.
C9_PillAgreesWithBranch ==
  (pc = "rendered" /\ subject.total > 0) =>
    /\ card.pill = "SAFE" <=>
         (card.hint.kind = SafeMessage /\ stats.needToAttend = Zero)
    /\ card.pill = "LOW" <=> card.hint.kind = NeedMessage

(***************************************************************************)
(* Properties of the page and the server.                                   *)
(***************************************************************************)
\* 0 <= attended <= total
Consistent(d) == 0 <= d.attended /\ d.attended <= d.total

\* C8: from a stored subject with 0 <= attended <= total, in every
\* interleaving of clicks, responses and re-renders, every PUT payload in
\* flight and the stored document satisfy 0 <= attended <= total.
C8_CountersConsistent ==
  /\ Consistent(doc)
  /\ \A i \in CallIds : calls[i].stage = "put" => Consistent(calls[i])

\* a "- Total" click on a full card, made while an earlier call was running,
\* whose payload lowers attended with the total
C8_Witness ==
  /\ history.overlapped
  /\ \E i \in CallIds :
       /\ calls[i].stage = "put" /\ calls[i].button = "decTotal"
       /\ calls[i].attended = calls[i].total
       /\ page.attended = calls[i].total + 1

\* only "+ Total" was clicked: the stored total is the initial total plus the
\* number of "+ Total" PUTs stored, and attended is unchanged
IncTotalsAllCount ==
  /\ doc.total = history.initial.total + history.incTotalStored
  /\ doc.attended = history.initial.attended

\* C10 as claimed: after k "+ Total" clicks whose PUT succeeded, and no other
\* update, the stored total is the initial total plus k, also when a click is
\* made before the response and re-render of the previous click have arrived.
C10_EveryIncTotalCounts == ~history.otherClicked => IncTotalsAllCount

\* C10 as amended: the same, provided every click is made when no earlier
\* call of the page (the initial load, a PUT, its response, the re-fetch and
\* re-render after it) is still running.
C10_IncTotalCountsWhenNotOverlapped ==
  (~history.otherClicked /\ ~history.overlapped) => IncTotalsAllCount

C10_Witness ==
  /\ ~history.otherClicked /\ ~history.overlapped
  /\ history.incTotalStored = 2
  /\ doc.total = history.initial.total + 2
  /\ page.shown /\ page.total = doc.total

=============================================================================
